---------------------------- MODULE Spec2Model ----------------------------
(***************************************************************************)
(* A model of the static-mirror tools of YuGliaLab.github.io:              *)
(*   tools/scrape_site_static.py  (asset namer, fetcher, CSS and HTML      *)
(*                                 rewriters, worker localizer, pipeline)  *)
(*   tools/strip_wix_runtime.py   (runtime stripper)                       *)
(*                                                                         *)
(* Strings are sequences of one-character strings over small alphabets;    *)
(* a SHA-256 hex digest is one atomic token that carries the text that was *)
(* hashed, so digests are injective and never equal literal characters.    *)
(***************************************************************************)
EXTENDS Integers, Sequences, FiniteSets, TLC

VARIABLES
    nmU1, nmU2, nmN1, nmN2,     \* asset namer: two URLs and their names
    ftFs, ftCalls,              \* fetcher: files on disk, the calls made
    stFile, stIn, stOut,        \* stripper: the file, the last pass's input
    stPasses, stFromOut,        \*   and output, passes run, input was output
    anPage, anHref, anNew,      \* anchor rewrite: page URL, href, new href
    wkSite, wkOrig, wkText,     \* worker localizer: the JSON's site entry, its
    wkPos, wkChanged, wkRet,    \*   string values as parsed and as text, the
    wkFs, wkTag,                \*   walk's place, flag and outcomes, the files
    plPages,                    \* pipeline: the page list of build_pages
    plIdx, plPc, plItem,        \*   page in work, place in main, work item
    plDoc,                      \*   the soup of the page in work
    plFs, plHtml,               \*   files under assets/, HTML files
    plNet,                      \*   requests the last step sent
    plLast, plFailed,           \*   the last step; elements whose fetch failed
    plWritten, plCreated404,    \*   pages written, 404.html written, by this run
    plTrace                     \*   steps done on the page in work

nmVars == <<nmU1, nmU2, nmN1, nmN2>>
ftVars == <<ftFs, ftCalls>>

stVars == <<stFile, stIn, stOut, stPasses, stFromOut>>

anVars == <<anPage, anHref, anNew>>

wkVars == <<wkSite, wkOrig, wkText, wkPos, wkChanged, wkRet, wkFs, wkTag>>

plVars == <<plPages, plIdx, plPc, plItem, plDoc, plFs, plHtml, plNet, plLast,
            plFailed, plWritten, plCreated404, plTrace>>

vars == <<nmVars, ftVars, stVars, anVars, wkVars, plVars>>

\* what each component leaves alone
nmOthers == <<ftVars, stVars, anVars, wkVars, plVars>>
ftOthers == <<nmVars, stVars, anVars, wkVars, plVars>>
stOthers == <<nmVars, ftVars, anVars, wkVars, plVars>>
anOthers == <<nmVars, ftVars, stVars, wkVars, plVars>>
wkOthers == <<nmVars, ftVars, stVars, anVars, plVars>>
plOthers == <<nmVars, ftVars, stVars, anVars, wkVars>>

-----------------------------------------------------------------------------
(* Bounds *)
MaxPathLen == 3      \* characters of a URL path, the leading "/" included
MaxCalls   == 3      \* calls of _download_binary in one fetcher run
MaxHead    == 2      \* children of <head> in a document to strip
MaxBody    == 1      \* elements of <body> in a document to strip
MaxPasses  == 2      \* passes of the stripper over one file
MaxHrefPath == 2     \* characters of an anchor's path after its leading "/"
MaxValues  == 2      \* string values in a wix-viewer-model JSON
MaxPages   == 2      \* pages of the sitemap
MaxElems   == 2      \* elements with a reference in all pages together

-----------------------------------------------------------------------------
(* Generic helpers on sequences *)

SeqsUpTo(S, n) == UNION {[1..k -> S] : k \in 0..n}

Contains(s, c) == \E i \in 1..Len(s) : s[i] = c

\* str.rfind: the last index of c in s, 0 when absent
LastIndex(s, c) ==
    IF Contains(s, c) THEN CHOOSE i \in 1..Len(s) :
                                s[i] = c /\ \A j \in (i+1)..Len(s) : s[j] # c
    ELSE 0

-----------------------------------------------------------------------------
(* URLs, as urllib.parse.urlparse splits them.  query = <<>> is "no query" *)
(* (urlparse does not tell "?" with nothing after it from no "?").         *)

PathChars == {"/", "a", ".", "~"}
Schemes   == {"https"}
Hosts     == {"h1", "h2"}
Queries   == {<<>>, <<"x">>, <<"y">>}
Paths     == {<<"/">> \o t : t \in SeqsUpTo(PathChars, MaxPathLen - 1)}

Urls == [scheme : Schemes, netloc : Hosts, path : Paths, query : Queries]

NoUrl == [scheme |-> "", netloc |-> "", path |-> <<>>, query |-> <<>>]

\* posixpath.basename: what follows the last "/"
basename(p) == SubSeq(p, LastIndex(p, "/") + 1, Len(p))

\* One character of a file name, or one digest
Chr(c)      == [k |-> "c",   s |-> <<c>>, u |-> NoUrl]
Digest16(u) == [k |-> "h16", s |-> <<>>,  u |-> u]      \* sha256(url)[:16]
Digest8(q)  == [k |-> "h8",  s |-> q,     u |-> NoUrl]  \* sha256(query)[:8]

Text(s) == [i \in 1..Len(s) |-> Chr(s[i])]

\* the characters the class [A-Za-z0-9._-] accepts
SafeChars == {"a", "c", "i", "j", "m", "p", "s", "w", ".", "_", "-"}

\* re.sub(r"[^A-Za-z0-9._-]+", "_", base): each maximal run of other
\* characters becomes one "_"
RECURSIVE Sanitize(_)
Sanitize(s) ==
    IF s = <<>> THEN <<>>
    ELSE LET h == Head(s)  t == Tail(s) IN
         IF h \in SafeChars THEN <<h>> \o Sanitize(t)
         ELSE IF t # <<>> /\ Head(t) \notin SafeChars THEN Sanitize(t)
         ELSE <<"_">> \o Sanitize(t)

\* the namer with the query-string branch left out
safe_filename_ignoring_query(url) ==
    LET base == basename(url.path)
    IN  IF base # <<>> /\ Contains(base, ".")
        THEN Text(Sanitize(base))
        ELSE Text(<<"a","s","s","e","t","_">>) \o <<Digest16(url)>>

\* os.path.splitext on a name of tokens: split at the last ".", unless only
\* dots precede it
IsDot(t) == t = Chr(".")

splitext(n) ==
    LET dots == {i \in 1..Len(n) : IsDot(n[i])}
        d    == IF dots = {} THEN 0
                ELSE CHOOSE i \in dots : \A j \in dots : j <= i
    IN  IF d > 0 /\ \E i \in 1..(d-1) : ~IsDot(n[i])
        THEN [root |-> SubSeq(n, 1, d-1), ext |-> SubSeq(n, d, Len(n))]
        ELSE [root |-> n, ext |-> <<>>]

_safe_filename_from_url(url) ==
    LET base == basename(url.path)
        name == IF base # <<>> /\ Contains(base, ".")
                THEN Text(Sanitize(base))
                ELSE Text(<<"a","s","s","e","t","_">>) \o <<Digest16(url)>>
    IN  IF url.query # <<>>
        THEN LET sp == splitext(name)
             IN  sp.root \o <<Chr("_"), Digest8(url.query)>> \o sp.ext
        ELSE name

-----------------------------------------------------------------------------
(* The asset fetcher.  A file's content is a string; Absent is no file.    *)

Absent == "<absent>"
Bodies == {"", "v1", "v2"}          \* "" is a body of zero bytes

Failure     == [ok |-> FALSE, content |-> ""]   \* transport error or non-2xx
Success(b)  == [ok |-> TRUE,  content |-> b]
Responses   == {Failure} \cup {Success(b) : b \in Bodies}

Exists(fsys, p)   == fsys[p] # Absent
NonEmpty(fsys, p) == Exists(fsys, p) /\ fsys[p] # ""

\* the fetcher with its "keep the file if it exists" test left out
download_binary_always(fsys, url, out_path, resp) ==
    IF ~resp.ok
    THEN [fs |-> fsys, ret |-> "raise", net |-> TRUE]
    ELSE [fs |-> [fsys EXCEPT ![out_path] = resp.content],
          ret |-> "True", net |-> TRUE]

\* ret: "False", "True", or "raise" when raise_for_status / get throws;
\* net: whether session.get was called.  resp is what the transport answers
\* if it is asked.
_download_binary(fsys, url, out_path, resp) ==
    IF NonEmpty(fsys, out_path)
    THEN [fs |-> fsys, ret |-> "False", net |-> FALSE]
    ELSE IF ~resp.ok
    THEN [fs |-> fsys, ret |-> "raise", net |-> TRUE]
    ELSE [fs |-> [fsys EXCEPT ![out_path] = resp.content],
          ret |-> "True", net |-> TRUE]

-----------------------------------------------------------------------------
(* The runtime stripper.  A document is what BeautifulSoup holds after     *)
(* parsing: the lang attribute of <html>, whether there is a <head>, and   *)
(* the nodes of head and body in document order.  A node is [tag, a, t]:   *)
(*   base                                                                  *)
(*   script   a = its type attribute                                       *)
(*   link     a = its href, t = its rel                                    *)
(*   style    a = its data-url / data-href, t = its text                   *)
(*   wix-video, /wix-video   the start and the end of a custom element     *)
(*   #comment t = the comment's text                                       *)
(*   p        any other element                                            *)

Node(tag, a, t) == [tag |-> tag, a |-> a, t |-> t]

MARKER == " Stripped Wix runtime for static hosting "

\* REMOTE_RE = ^(https?:)?//
RemoteUrls == {"https://static.parastorage.com/x", "//cdn.example/x"}
\* WIX_HOST_RE = wixstatic\.com|parastorage\.com|wix\.com, case ignored
WixTexts   == {"https://static.parastorage.com/x", "mirror/wix.com/x",
               "a{background:url(//static.wixstatic.com/i.png)}",
               "@font-face{src:url(//static.wixstatic.com/f.woff)}",
               "@FONT-FACE{src:url(//static.wixstatic.com/f.woff)}"}
\* texts with the substring "@font-face", in this very case
FontFaceTexts == {"@font-face{src:url(//static.wixstatic.com/f.woff)}"}
\* texts with an @font-face rule, in any case (CSS at-keywords ignore case)
FontFaceRules == FontFaceTexts \cup
                 {"@FONT-FACE{src:url(//static.wixstatic.com/f.woff)}"}

is_remote_url(url) == url # "" /\ url \in RemoteUrls
is_wix_remote(url) == url # "" /\ url \in WixTexts

Lower(s) == IF s = "Application/LD+JSON" THEN "application/ld+json" ELSE s

HeadNodes ==
    {Node("base", "", "")}
    \cup {Node("script", ty, "") : ty \in {"application/ld+json", ""}}
    \cup {Node("link", "https://static.parastorage.com/x", "stylesheet"),
          Node("link", "local.css", "preload"),
          Node("link", "favicon.ico", "icon")}
    \cup {Node("style", "", tx) :
              tx \in {"p{color:red}",
                      "a{background:url(//static.wixstatic.com/i.png)}",
                      "@font-face{src:url(//static.wixstatic.com/f.woff)}",
                      "@FONT-FACE{src:url(//static.wixstatic.com/f.woff)}"}}
    \cup {Node("style", "https://static.parastorage.com/x",
               "@font-face{src:url(//static.wixstatic.com/f.woff)}")}
    \cup {Node("#comment", "", MARKER)}

BodyUnits ==
    { <<Node("base", "", "")>>,
      <<Node("p", "", "")>>,
      <<Node("wix-video", "", ""), Node("p", "", ""), Node("/wix-video", "", "")>> }

RECURSIVE Flatten(_)
Flatten(ss) == IF ss = <<>> THEN <<>> ELSE Head(ss) \o Flatten(Tail(ss))

StripDocs ==
    {[lang |-> l, hasHead |-> TRUE, head |-> h, body |-> Flatten(b)] :
        l \in {"", "de"}, h \in SeqsUpTo(HeadNodes, MaxHead),
        b \in SeqsUpTo(BodyUnits, MaxBody)}
    \cup
    {[lang |-> l, hasHead |-> FALSE, head |-> <<>>, body |-> Flatten(b)] :
        l \in {"", "de"}, b \in SeqsUpTo(BodyUnits, MaxBody)}

NoDoc == [lang |-> "", hasHead |-> FALSE, head |-> <<>>, body |-> <<>>]

\* str(soup): the document as text, one token per tag
Serialize(d) ==
    <<Node("html", d.lang, "")>>
    \o (IF d.hasHead
        THEN <<Node("head", "", "")>> \o d.head \o <<Node("/head", "", "")>>
        ELSE <<>>)
    \o d.body

\* the sequence without its first node of the given tag
RECURSIVE RemoveFirst(_, _)
RemoveFirst(s, tag) ==
    IF s = <<>> THEN <<>>
    ELSE IF Head(s).tag = tag THEN Tail(s)
    ELSE <<Head(s)>> \o RemoveFirst(Tail(s), tag)

HasTag(s, tag) == \E i \in 1..Len(s) : s[i].tag = tag

\* soup.find("base") and decompose: the first <base> in document order
StripBase(d) ==
    IF HasTag(d.head, "base") THEN [d EXCEPT !.head = RemoveFirst(d.head, "base")]
    ELSE IF HasTag(d.body, "base") THEN [d EXCEPT !.body = RemoveFirst(d.body, "base")]
    ELSE d

ScriptKept(n) == Lower(n.a) = "application/ld+json"

LinkRemoved(n) ==
    \/ is_remote_url(n.a) \/ is_wix_remote(n.a)
    \/ n.t \in {"preload", "prefetch", "modulepreload"}

\* the style test without its @font-face exemption
StyleRemovedAnyWixText(n) ==
    \/ is_remote_url(n.a) \/ is_wix_remote(n.a)
    \/ n.t \in WixTexts

StyleRemoved(n) ==
    \/ is_remote_url(n.a) \/ is_wix_remote(n.a)
    \/ (n.t \in WixTexts /\ n.t \notin FontFaceTexts)

CustomTags == {"wix-dropdown-menu", "wix-video", "wix-bg-image", "wix-iframe"}
CustomEnds == {"/wix-dropdown-menu", "/wix-video", "/wix-bg-image", "/wix-iframe"}

KeptByStrip(n) ==
    /\ n.tag = "script" => ScriptKept(n)
    /\ n.tag = "link"   => ~LinkRemoved(n)
    /\ n.tag = "style"  => ~StyleRemoved(n)
    \* el.unwrap(): the element's tags go, its children stay
    /\ n.tag \notin CustomTags \cup CustomEnds

strip_html(html) ==
    LET d1 == StripBase(html)
        d2 == [d1 EXCEPT !.head = SelectSeq(d1.head, KeptByStrip),
                         !.body = SelectSeq(d1.body, KeptByStrip)]
        d3 == [d2 EXCEPT !.lang = IF d2.lang = "" THEN "en" ELSE d2.lang]
    IN  IF d3.hasHead
        THEN [d3 EXCEPT !.head = Append(d3.head, Node("#comment", "", MARKER))]
        ELSE d3

StripInit ==
    /\ stFile \in StripDocs
    /\ stIn = NoDoc
    /\ stOut = NoDoc
    /\ stPasses = 0
    /\ stFromOut = FALSE

StripIdle ==
    /\ stFile = NoDoc
    /\ stIn = NoDoc
    /\ stOut = NoDoc
    /\ stPasses = 0
    /\ stFromOut = FALSE

process_file(in_place) ==
    /\ stPasses < MaxPasses
    /\ LET original == stFile
           stripped == strip_html(original)
           changed  == Serialize(stripped) # Serialize(original)
       IN  /\ stIn' = original
           /\ stOut' = stripped
           /\ stFile' = IF in_place /\ changed THEN stripped ELSE stFile
           /\ stFromOut' = (stPasses >= 1 /\ original = stOut)
    /\ stPasses' = stPasses + 1
    /\ UNCHANGED stOthers

StripNext == \E in_place \in BOOLEAN : process_file(in_place)

-----------------------------------------------------------------------------
(* Internal anchor rewriting.  An href is what urljoin and urlparse make   *)
(* of it: kind "abs" (https://netloc...), "root" (/path...), or "#",       *)
(* "mailto:", "tel:"; the texts are sequences of characters, the scheme    *)
(* and host of an absolute href one token.                                 *)

HrefPaths  == {<<>>} \cup {<<"/">> \o t : t \in SeqsUpTo({"/", "n"}, MaxHrefPath)}
HrefQueries   == {<<>>, <<"x">>, <<"/", "/">>}
HrefFragments == {<<>>, <<"y">>}

Hrefs ==
    [kind : {"abs"}, netloc : Hosts, path : HrefPaths,
     query : HrefQueries, fragment : HrefFragments]
    \cup [kind : {"root"}, netloc : {""}, path : HrefPaths \ {<<>>},
          query : HrefQueries, fragment : HrefFragments]
    \cup [kind : {"#", "mailto:", "tel:"}, netloc : {""}, path : {<<>>},
          query : {<<>>}, fragment : {<<"y">>}]

NoHref == [kind |-> "", netloc |-> "", path |-> <<>>, query |-> <<>>,
           fragment |-> <<>>]

QueryText(q)    == IF q # <<>> THEN <<"?">> \o q ELSE <<>>
FragmentText(f) == IF f # <<>> THEN <<"#">> \o f ELSE <<>>

\* the href attribute as written in the page
HrefText(h) ==
    CASE h.kind = "abs"  -> <<"https://", h.netloc>> \o h.path
                            \o QueryText(h.query) \o FragmentText(h.fragment)
      [] h.kind = "root" -> h.path \o QueryText(h.query) \o FragmentText(h.fragment)
      [] OTHER           -> <<h.kind>> \o h.fragment

\* urlparse(urljoin(page_url, h)).netloc
ResolvedNetloc(page_url, h) ==
    IF h.kind = "abs" THEN h.netloc ELSE page_url.netloc

\* str.rstrip("/")
RECURSIVE rstrip_slash(_)
rstrip_slash(s) ==
    IF s # <<>> /\ s[Len(s)] = "/" THEN rstrip_slash(SubSeq(s, 1, Len(s) - 1))
    ELSE s

\* str.replace(a b, c) for a two-character pattern: left to right, without
\* looking again at what was replaced
RECURSIVE replace2(_, _, _, _)
replace2(s, a, b, c) ==
    IF Len(s) < 2 THEN s
    ELSE IF s[1] = a /\ s[2] = b THEN <<c>> \o replace2(SubSeq(s, 3, Len(s)), a, b, c)
    ELSE <<s[1]>> \o replace2(Tail(s), a, b, c)

\* the new href of an internal anchor (lines 433-442)
internal_href(h) ==
    LET frag  == FragmentText(h.fragment)
        query == QueryText(h.query)
        path  == IF h.path # <<>> THEN h.path ELSE <<"/">>
    IN  IF path = <<"/">>
        THEN replace2(<<"/">> \o query \o frag, "/", "?", "?")
        ELSE replace2(rstrip_slash(path) \o <<"/">> \o query \o frag \o <<"/">>,
                      "/", "/", "/")

\* the value of a["href"] after the loop body (lines 418-442)
rewrite_anchor(page_url, h) ==
    IF h.kind \in {"#", "mailto:", "tel:"} THEN HrefText(h)
    ELSE IF ResolvedNetloc(page_url, h) # page_url.netloc THEN HrefText(h)
    ELSE internal_href(h)

AnchorPages == {u \in Urls : u.query = <<>> /\ Len(u.path) <= 2 /\ u.path[Len(u.path)] # "~"}

AnchorInit ==
    /\ anPage \in AnchorPages
    /\ anHref \in Hrefs
    /\ anNew = <<>>

AnchorIdle ==
    /\ anPage = NoUrl
    /\ anHref = NoHref
    /\ anNew = <<>>

RewriteAnchor ==
    /\ anNew = <<>>
    /\ anNew' = rewrite_anchor(anPage, anHref)
    /\ UNCHANGED <<anPage, anHref>>
    /\ UNCHANGED anOthers

-----------------------------------------------------------------------------
(* The worker bootstrap localizer.  A string value of the JSON is a        *)
(* reference in the shape of an href; "w" abbreviates the word             *)
(* clientWorker, so the marker "clientWorker." is "w" followed by ".".     *)
(* The JSON is kept as the sequence of its string values in the order      *)
(* walk() visits them, with what model.get("site", {}).get(                *)
(* "externalBaseUrl") finds kept apart in wkSite.                          *)

Ref(kind, netloc, path, query, fragment) ==
    [kind |-> kind, netloc |-> netloc, path |-> path, query |-> query,
     fragment |-> fragment]

\* the text of a reference, one string per character or word
RefText(h) ==
    CASE h.kind = "abs"  -> <<"https://", h.netloc>> \o h.path
                            \o QueryText(h.query) \o FragmentText(h.fragment)
      [] h.kind \in {"root", "rel"} ->
                            h.path \o QueryText(h.query) \o FragmentText(h.fragment)
      [] OTHER           -> <<h.kind>> \o h.fragment

\* "clientWorker." in v
HasWorkerMarker(h) ==
    LET t == RefText(h) IN \E i \in 1..(Len(t) - 1) : t[i] = "w" /\ t[i+1] = "."

\* "wix-thunderbolt" in v
HasThunderbolt(h) == Contains(RefText(h), "wix-thunderbolt")

\* _is_http_url
_is_http_url(h) == h.kind = "abs"

\* str.lstrip("/")
RECURSIVE lstrip_slash(_)
lstrip_slash(s) ==
    IF s # <<>> /\ Head(s) = "/" THEN lstrip_slash(Tail(s)) ELSE s

\* _strip_fragment of an absolute reference, as urlparse splits the result
AbsUrlOf(h) ==
    [scheme |-> "https", netloc |-> h.netloc, path |-> h.path, query |-> h.query]

\* urljoin(external_base.rstrip("/") + "/", raw.lstrip("/"))
JoinBase(external_base, h) ==
    [scheme |-> external_base.scheme, netloc |-> external_base.netloc,
     path |-> rstrip_slash(external_base.path) \o <<"/">> \o lstrip_slash(h.path),
     query |-> h.query]

WorkerBase == [scheme |-> "https", netloc |-> "h1", path |-> <<>>, query |-> <<>>]

\* what the lookup of site.externalBaseUrl finds: the base URL, or NoUrl for
\* None (no such key, a "site" that is no object, a top level that is a
\* list) and for the empty string
SiteOptions == {"notag", "badjson", "toplist", "nosite", "nondict", "emptybase", "base"}

external_base_of(site) == IF site = "base" THEN WorkerBase ELSE NoUrl

\* the absolute URL the worker is fetched from; NoUrl when the value is
\* left alone (lines 234-248)
worker_abs_url(site, h) ==
    IF _is_http_url(h) THEN AbsUrlOf(h)
    ELSE IF h.kind = "root" /\ external_base_of(site) # NoUrl
    THEN JoinBase(external_base_of(site), h)
    ELSE NoUrl

WorkerDir == <<"/", "assets", "/", "wix-workers", "/">>

\* assets_dir / filename  and  assets_dir / "wix-workers" / filename
AssetPath(filename)  == [dir |-> "assets", name |-> filename]
WorkerPath(filename) == [dir |-> "assets/wix-workers", name |-> filename]

\* f"/{rel_from_site_root}"
worker_site_root_path(filename) == Text(WorkerDir) \o filename

\* maybe_rewrite_value (lines 219-265): the new text of the value, the files
\* after it, whether it set `changed`, and how the download went
maybe_rewrite_value(site, h, fsys, resp) ==
    LET same == [text |-> Text(RefText(h)), fs |-> fsys, changed |-> FALSE,
                 ret |-> "skip", net |-> FALSE]
        abs_url == worker_abs_url(site, h)
    IN  IF ~HasWorkerMarker(h) THEN same
        ELSE IF abs_url = NoUrl THEN same
        ELSE LET filename == _safe_filename_from_url(abs_url)
                 out_path == WorkerPath(filename)
                 r == _download_binary(fsys, abs_url, out_path, resp)
             IN  IF r.ret = "raise"
                 THEN [same EXCEPT !.ret = "raise", !.net = r.net]
                 ELSE [text |-> worker_site_root_path(filename), fs |-> r.fs,
                       changed |-> TRUE, ret |-> r.ret, net |-> r.net]

WorkerRefs ==
    { Ref("abs",  "h2", <<"/", "w", ".", "a">>, <<>>, <<>>),
      Ref("abs",  "h2", <<"/", "w", ".", "a">>, <<>>, <<"y">>),
      Ref("abs",  "h2", <<"/", "w", ".", "a">>, <<"x">>, <<>>),
      Ref("root", "",   <<"/", "p", "/", "w", ".", "a">>, <<>>, <<>>),
      Ref("root", "",   WorkerDir \o <<"w", ".", "a">>, <<>>, <<>>),
      Ref("rel",  "",   <<"w", ".", "a">>, <<>>, <<>>),
      Ref("abs",  "h2", <<"/", "wix-thunderbolt", "/", "m", ".", "a">>, <<>>, <<>>) }

WorkerFiles ==
    {WorkerPath(_safe_filename_from_url(worker_abs_url("base", h))) :
        h \in {x \in WorkerRefs : HasWorkerMarker(x) /\ x.kind # "rel"}}

WorkerInit ==
    /\ wkSite \in SiteOptions
    /\ wkOrig \in SeqsUpTo(WorkerRefs, MaxValues)
    /\ wkSite \in {"notag", "badjson"} => wkOrig = <<>>
    /\ wkText = [i \in 1..Len(wkOrig) |-> Text(RefText(wkOrig[i]))]
    /\ wkPos = 1
    /\ wkChanged = FALSE
    /\ wkRet = <<>>
    /\ wkFs \in [WorkerFiles -> {Absent, "v1"}]
    /\ wkTag = "pending"

WorkerIdle ==
    /\ wkSite = "notag"
    /\ wkOrig = <<>>
    /\ wkText = <<>>
    /\ wkPos = 1
    /\ wkChanged = FALSE
    /\ wkRet = <<>>
    /\ wkFs = [p \in {} |-> Absent]
    /\ wkTag = "idle"

\* walk() reaching the next string value
WalkValue ==
    /\ wkTag = "pending"
    /\ wkPos <= Len(wkOrig)
    /\ \E resp \in Responses :
          LET r == maybe_rewrite_value(wkSite, wkOrig[wkPos], wkFs, resp)
          IN  /\ wkText' = [wkText EXCEPT ![wkPos] = r.text]
              /\ wkFs' = r.fs
              /\ wkChanged' = (wkChanged \/ r.changed)
              /\ wkRet' = Append(wkRet, r.ret)
    /\ wkPos' = wkPos + 1
    /\ UNCHANGED <<wkSite, wkOrig, wkTag>>
    /\ UNCHANGED wkOthers

\* lines 206-215 when there is nothing to walk, and lines 281-282
FinishWalk ==
    /\ wkTag = "pending"
    /\ wkPos > Len(wkOrig)
    /\ wkTag' = IF wkChanged THEN "reserialized" ELSE "untouched"
    /\ UNCHANGED <<wkSite, wkOrig, wkText, wkPos, wkChanged, wkRet, wkFs>>
    /\ UNCHANGED wkOthers

-----------------------------------------------------------------------------
(* The page pipeline: main's loop over the pages, the HTML asset rewriter  *)
(* and the CSS rewriter.  An element of a page is [tag, rel, ref, val,     *)
(* live]: ref is its reference as parsed, val the text of the attribute    *)
(* (for the wix-viewer-model script: of its JSON string value), live is    *)
(* FALSE once decompose() removed it.                                      *)

Elem(tag, rel, ref) ==
    [tag |-> tag, rel |-> rel, ref |-> ref, val |-> Text(RefText(ref)),
     live |-> TRUE]

CssRef    == Ref("abs",  "h2", <<"/", "s", ".", "c">>, <<>>, <<>>)
ImgRef    == Ref("abs",  "h2", <<"/", "i", ".", "a">>, <<>>, <<>>)
JsRef     == Ref("abs",  "h2", <<"/", "j", ".", "a">>, <<>>, <<>>)
BundleRef == Ref("abs",  "h2", <<"/", "w", ".", "a">>, <<>>, <<>>)
NewsRef   == Ref("root", "",   <<"/", "n">>, <<"x">>, <<"y">>)
NoRef     == Ref("", "", <<>>, <<>>, <<>>)

Elems ==
    { Elem("link", "stylesheet", CssRef),
      Elem("img", "", ImgRef),
      Elem("script", "", JsRef),
      Elem("script#wix-viewer-model", "", BundleRef),
      Elem("a", "", NewsRef),
      Elem("base", "", Ref("root", "", <<"/">>, <<>>, <<>>)) }

\* the url(...) tokens of a stylesheet's text: every body but the empty one
\* holds one token, url(i.a), relative to the stylesheet
CssTokenRef == Ref("rel", "", <<"i", ".", "a">>, <<>>, <<>>)
CssTokens(body) == IF body = "" THEN <<>> ELSE <<CssTokenRef>>

\* the text CSS_URL_RE.sub returns: the body with its token replaced by the
\* relative path (marked "r"), or as it was
CssRewritten(body, localized) ==
    IF ~localized THEN body
    ELSE IF body = "v1" THEN "v1r" ELSE IF body = "v2" THEN "v2r" ELSE body

\* posixpath dirname with its trailing "/"
DirOf(path) == SubSeq(path, 1, LastIndex(path, "/"))

\* _strip_fragment(_normalize_url(base_url, ref)) as urlparse splits it;
\* NoUrl when the result is no http(s) URL
Resolve(base_url, h) ==
    CASE h.kind = "abs"  -> AbsUrlOf(h)
      [] h.kind = "root" -> [scheme |-> base_url.scheme, netloc |-> base_url.netloc,
                             path |-> h.path, query |-> h.query]
      [] h.kind = "rel"  -> [scheme |-> base_url.scheme, netloc |-> base_url.netloc,
                             path |-> DirOf(base_url.path) \o h.path,
                             query |-> h.query]
      [] OTHER -> NoUrl

\* str.strip("/")
strip_slash(s) == rstrip_slash(lstrip_slash(s))

\* _slug_to_html_filename
_slug_to_html_filename(slug) ==
    IF strip_slash(slug) = <<>> THEN <<"index.html">>
    ELSE strip_slash(slug) \o <<"/", "index.html">>

\* build_pages: Page.out_html_path, relative to out_dir
out_html_path(url) ==
    _slug_to_html_filename(IF url.path # <<>> THEN url.path ELSE <<"/">>)

\* the folders between out_dir and the page's file
Depth(url) == Cardinality({i \in 1..Len(out_html_path(url)) : out_html_path(url)[i] = "/"})

RECURSIVE Ups(_)
Ups(n) == IF n = 0 THEN <<>> ELSE <<"..", "/">> \o Ups(n - 1)

\* os.path.relpath(assets_dir / filename, out_html_path.parent)
RelToPage(url, filename) == Text(Ups(Depth(url)) \o <<"assets", "/">>) \o filename

\* "siteassets.parastorage.com/pages/pages/thunderbolt" in abs_url
IsThunderboltBundle(abs_url) == abs_url.netloc = "siteassets.parastorage.com"

\* localize_attr with a failed download dropping the attribute
localize_attr_dropping(page_url, el, fsys, resp) ==
    LET abs_url  == Resolve(page_url, el.ref)
        filename == _safe_filename_from_url(abs_url)
        r        == _download_binary(fsys, abs_url, AssetPath(filename), resp)
    IN  IF abs_url = NoUrl
        THEN [val |-> el.val, fs |-> fsys, ret |-> "skip", net |-> {}]
        ELSE [val |-> IF r.ret = "raise" THEN <<>> ELSE RelToPage(page_url, filename),
              fs |-> r.fs, ret |-> r.ret,
              net |-> IF r.net THEN {<<abs_url, AssetPath(filename)>>} ELSE {}]

\* localize_attr (lines 295-339): the attribute's new text, the files, how
\* the download went and the requests sent
localize_attr(page_url, el, fsys, resp) ==
    LET same == [val |-> el.val, fs |-> fsys, ret |-> "skip", net |-> {}]
        abs_url == Resolve(page_url, el.ref)
    IN  IF el.ref.kind \in {"", "data:", "mailto:", "tel:", "#"} THEN same
        ELSE IF abs_url = NoUrl THEN same
        ELSE IF IsThunderboltBundle(abs_url)
        THEN [same EXCEPT !.val = Text(RefText([el.ref EXCEPT !.fragment = <<>>])),
                          !.ret = "remote"]
        ELSE LET filename   == _safe_filename_from_url(abs_url)
                 local_path == AssetPath(filename)
                 r == _download_binary(fsys, abs_url, local_path, resp)
                 sent == IF r.net THEN {<<abs_url, local_path>>} ELSE {}
             IN  IF r.ret = "raise"
                 THEN [same EXCEPT !.ret = "raise", !.net = sent]
                 ELSE [val |-> RelToPage(page_url, filename), fs |-> r.fs,
                       ret |-> r.ret, net |-> sent]

\* repl of _rewrite_css_and_download_assets (lines 123-152) for one token
css_repl(css_url, tok, fsys, resp) ==
    LET abs_url == Resolve(css_url, tok)
    IN  IF tok.kind = "data:" \/ abs_url = NoUrl
        THEN [localized |-> FALSE, fs |-> fsys, ret |-> "skip", net |-> {}]
        ELSE LET filename   == _safe_filename_from_url(abs_url)
                 local_path == AssetPath(filename)
                 r == _download_binary(fsys, abs_url, local_path, resp)
                 sent == IF r.net THEN {<<abs_url, local_path>>} ELSE {}
             IN  [localized |-> r.ret # "raise", fs |-> r.fs, ret |-> r.ret,
                  net |-> sent]

\* one turn of the stylesheet loop (lines 342-375); resp answers the GET of
\* the stylesheet, resp_tok the download of its url() token
localize_stylesheet(page_url, el, fsys, resp, resp_tok) ==
    LET same == [val |-> el.val, fs |-> fsys, ret |-> "skip", net |-> {},
                 tok |-> "none", body |-> ""]
        css_url == Resolve(page_url, el.ref)
    IN  IF el.ref.kind = "" \/ css_url = NoUrl THEN same
        ELSE LET filename     == _safe_filename_from_url(css_url)
                 out_css_path == AssetPath(filename)
                 sent         == {<<css_url, out_css_path>>}
             IN  IF ~resp.ok
                 THEN [same EXCEPT !.ret = "raise", !.net = sent]
                 ELSE LET toks == CssTokens(resp.content)
                          t == IF toks = <<>>
                               THEN [localized |-> FALSE, fs |-> fsys,
                                     ret |-> "none", net |-> {}]
                               ELSE css_repl(css_url, toks[1], fsys, resp_tok)
                          css_text == CssRewritten(resp.content, t.localized)
                      IN  [val |-> RelToPage(page_url, filename),
                           fs  |-> [t.fs EXCEPT ![out_css_path] = css_text],
                           ret |-> "True", net |-> sent \cup t.net,
                           tok |-> t.ret, body |-> resp.content]

-----------------------------------------------------------------------------
(* The pipeline's state and steps *)

PageUrls == {[scheme |-> "https", netloc |-> "h1", path |-> pth, query |-> <<>>] :
                pth \in {<<"/">>, <<"/", "n">>}}

Docs == SeqsUpTo(Elems, MaxElems)

\* the lists build_pages can return: distinct URLs, each with its document
RECURSIVE TotalElems(_)
TotalElems(pl) == IF pl = <<>> THEN 0 ELSE Len(Head(pl).doc) + TotalElems(Tail(pl))

PageLists ==
    {pl \in SeqsUpTo([url : PageUrls, doc : Docs], MaxPages) :
        /\ \A i, j \in 1..Len(pl) : i # j => pl[i].url # pl[j].url
        /\ TotalElems(pl) <= MaxElems}

\* what the transport answers in a pipeline run
PipeResponses == {Failure, Success(""), Success("v1")}

PipelineFiles ==
    {AssetPath(_safe_filename_from_url(AbsUrlOf(h))) : h \in {CssRef, ImgRef, JsRef}}
    \cup {WorkerPath(_safe_filename_from_url(AbsUrlOf(BundleRef)))}

HtmlPaths == {out_html_path(u) : u \in PageUrls} \cup {<<"404.html">>}

NoHtml        == [st |-> "absent", text |-> "", doc |-> <<>>]
OldHtml(name) == [st |-> "file", text |-> name, doc |-> <<>>]
PageHtml(doc) == [st |-> "file", text |-> "page", doc |-> doc]

NoStep == [kind |-> "none", idx |-> 0, ret |-> "", tok |-> "", body |-> ""]
Step(kind, idx, ret, tok, body) ==
    [kind |-> kind, idx |-> idx, ret |-> ret, tok |-> tok, body |-> body]

PipeInit ==
    /\ plPages \in PageLists
    /\ plIdx = 1
    /\ plPc = "fetch"
    /\ plItem = 0
    /\ plDoc = <<>>
    /\ plFs = [f \in PipelineFiles |-> Absent]
    /\ plHtml \in {h \in [HtmlPaths -> {NoHtml, OldHtml("old index"), OldHtml("old 404")}] :
                      /\ h[<<"index.html">>] # OldHtml("old 404")
                      /\ h[<<"404.html">>] # OldHtml("old index")
                      /\ h[<<"n", "/", "index.html">>] = NoHtml}
    /\ plNet = {}
    /\ plLast = NoStep
    /\ plFailed = {}
    /\ plWritten = {}
    /\ plCreated404 = FALSE
    /\ plTrace = <<>>

PipeIdle ==
    /\ plPages = <<>>
    /\ plIdx = 1
    /\ plPc = "idle"
    /\ plItem = 0
    /\ plDoc = <<>>
    /\ plFs = [f \in {} |-> Absent]
    /\ plHtml = [f \in {} |-> NoHtml]
    /\ plNet = {}
    /\ plLast = NoStep
    /\ plFailed = {}
    /\ plWritten = {}
    /\ plCreated404 = FALSE
    /\ plTrace = <<>>

\* the indices of the elements soup.select(...) returns, in document order
Selected(doc, Test(_)) ==
    SelectSeq([i \in 1..Len(doc) |-> i], LAMBDA i : Test(doc[i]))

Items(kind, idxs) == [k \in 1..Len(idxs) |-> [kind |-> kind, idx |-> idxs[k]]]

\* one page's steps with the worker localizer run first, before the assets
WorkItemsWorkerFirst(doc) ==
    <<[kind |-> "worker", idx |-> 0]>>
    \o Items("css",  Selected(doc, LAMBDA e : e.tag = "link" /\ e.rel = "stylesheet"))
    \o Items("attr", Selected(doc, LAMBDA e : e.tag = "script"))
    \o Items("attr", Selected(doc, LAMBDA e : e.tag = "img"))
    \o Items("attr", Selected(doc, LAMBDA e : e.tag = "source"))
    \o Items("attr", Selected(doc, LAMBDA e : e.tag = "link" /\ e.rel # "stylesheet"))
    \o <<[kind |-> "base", idx |-> 0],
         [kind |-> "anchors", idx |-> 0], [kind |-> "write", idx |-> 0]>>

\* what _html_rewrite_and_download_assets and main do with one page, in the
\* order of the code (lines 342-442, 521-522)
WorkItems(doc) ==
    Items("css",  Selected(doc, LAMBDA e : e.tag = "link" /\ e.rel = "stylesheet"))
    \o Items("attr", Selected(doc, LAMBDA e : e.tag = "script"))
    \o Items("attr", Selected(doc, LAMBDA e : e.tag = "img"))
    \o Items("attr", Selected(doc, LAMBDA e : e.tag = "source"))
    \o Items("attr", Selected(doc, LAMBDA e : e.tag = "link" /\ e.rel # "stylesheet"))
    \o <<[kind |-> "base", idx |-> 0], [kind |-> "worker", idx |-> 0],
         [kind |-> "anchors", idx |-> 0], [kind |-> "write", idx |-> 0]>>

Page    == plPages[plIdx]
Item    == WorkItems(Page.doc)[plItem]
AtItem(kind) == plPc = "work" /\ Item.kind = kind

\* main, line 508: _get_page answers
GetPage ==
    /\ plPc = "fetch"
    /\ plIdx <= Len(plPages)
    /\ plDoc' = Page.doc
    /\ plPc' = "work"
    /\ plItem' = 1
    /\ plFailed' = {}
    /\ plTrace' = <<>>
    /\ plNet' = {}
    /\ plLast' = Step("page", plIdx, "True", "", "")
    /\ UNCHANGED <<plPages, plIdx, plFs, plHtml, plWritten, plCreated404>>
    /\ UNCHANGED plOthers

\* a failed page fetch that main would catch, going on with the next page
GetPageFailsSkipping ==
    /\ plPc = "fetch"
    /\ plIdx <= Len(plPages)
    /\ plIdx' = plIdx + 1
    /\ plNet' = {}
    /\ plLast' = Step("page", plIdx, "raise", "", "")
    /\ UNCHANGED <<plPages, plPc, plItem, plDoc, plFs, plHtml, plFailed,
                   plWritten, plCreated404, plTrace>>
    /\ UNCHANGED plOthers

\* main, line 508: _get_page raises, and nothing catches it
GetPageFails ==
    /\ plPc = "fetch"
    /\ plIdx <= Len(plPages)
    /\ plPc' = "raised"
    /\ plNet' = {}
    /\ plLast' = Step("page", plIdx, "raise", "", "")
    /\ UNCHANGED <<plPages, plIdx, plItem, plDoc, plFs, plHtml, plFailed,
                   plWritten, plCreated404, plTrace>>
    /\ UNCHANGED plOthers

StepDone(kind) ==
    /\ plItem' = plItem + 1
    /\ plTrace' = Append(plTrace, kind)
    /\ UNCHANGED <<plPages, plIdx, plPc, plHtml, plWritten, plCreated404>>
    /\ UNCHANGED plOthers

LocalizeStylesheet ==
    /\ AtItem("css")
    /\ \E resp \in PipeResponses, resp_tok \in PipeResponses :
          LET r == localize_stylesheet(Page.url, plDoc[Item.idx], plFs, resp, resp_tok)
          IN  /\ plDoc' = [plDoc EXCEPT ![Item.idx].val = r.val]
              /\ plFs' = r.fs
              /\ plNet' = r.net
              /\ plLast' = Step("css", Item.idx, r.ret, r.tok, r.body)
              /\ plFailed' = IF r.ret = "raise" THEN plFailed \cup {Item.idx}
                              ELSE plFailed
    /\ StepDone("css")

LocalizeAttr ==
    /\ AtItem("attr")
    /\ \E resp \in PipeResponses :
          LET r == localize_attr(Page.url, plDoc[Item.idx], plFs, resp)
          IN  /\ plDoc' = [plDoc EXCEPT ![Item.idx].val = r.val]
              /\ plFs' = r.fs
              /\ plNet' = r.net
              /\ plLast' = Step("attr", Item.idx, r.ret, "", "")
              /\ plFailed' = IF r.ret = "raise" THEN plFailed \cup {Item.idx}
                              ELSE plFailed
    /\ StepDone("attr")

\* lines 403-405
RemoveBase ==
    /\ AtItem("base")
    /\ plDoc' = [i \in 1..Len(plDoc) |->
                    IF plDoc[i].tag = "base" THEN [plDoc[i] EXCEPT !.live = FALSE]
                    ELSE plDoc[i]]
    /\ plNet' = {}
    /\ plLast' = Step("base", 0, "", "", "")
    /\ UNCHANGED <<plFs, plFailed>>
    /\ StepDone("base")

ViewerModels(doc) == Selected(doc, LAMBDA e : e.tag = "script#wix-viewer-model")

\* lines 408-414: _localize_wix_client_worker on the first wix-viewer-model
\* script, whose JSON holds one string value and site.externalBaseUrl
LocalizeWorker ==
    /\ AtItem("worker")
    /\ IF ViewerModels(plDoc) = <<>>
       THEN /\ plNet' = {}
            /\ plLast' = Step("worker", 0, "skip", "", "")
            /\ UNCHANGED <<plDoc, plFs, plFailed>>
       ELSE LET i == ViewerModels(plDoc)[1] IN
            \E resp \in PipeResponses :
               LET r == maybe_rewrite_value("base", plDoc[i].ref, plFs, resp)
                   abs_url == worker_abs_url("base", plDoc[i].ref)
               IN  /\ plDoc' = [plDoc EXCEPT ![i].val = r.text]
                   /\ plFs' = r.fs
                   /\ plNet' = IF r.net
                                THEN {<<abs_url, WorkerPath(_safe_filename_from_url(abs_url))>>}
                                ELSE {}
                   /\ plLast' = Step("worker", i, r.ret, "", "")
                   /\ plFailed' = IF r.ret = "raise" THEN plFailed \cup {i}
                                   ELSE plFailed
    /\ StepDone("worker")

\* lines 416-442
RewriteAnchors ==
    /\ AtItem("anchors")
    /\ plDoc' = [i \in 1..Len(plDoc) |->
                    IF plDoc[i].tag = "a"
                    THEN [plDoc[i] EXCEPT !.val = Text(rewrite_anchor(Page.url, plDoc[i].ref))]
                    ELSE plDoc[i]]
    /\ plNet' = {}
    /\ plLast' = Step("anchors", 0, "", "", "")
    /\ UNCHANGED <<plFs, plFailed>>
    /\ StepDone("anchors")

\* main, lines 521-525
WritePage ==
    /\ AtItem("write")
    /\ plHtml' = [plHtml EXCEPT ![out_html_path(Page.url)] = PageHtml(plDoc)]
    /\ plWritten' = plWritten \cup {plIdx}
    /\ plIdx' = plIdx + 1
    /\ plPc' = "fetch"
    /\ plTrace' = Append(plTrace, "write")
    /\ plNet' = {}
    /\ plLast' = Step("write", plIdx, "", "", "")
    /\ UNCHANGED <<plPages, plItem, plDoc, plFs, plFailed, plCreated404>>
    /\ UNCHANGED plOthers

\* the end of main copying index.html over 404.html whenever index.html exists
FinishOverwriting ==
    /\ plPc = "fetch"
    /\ plIdx > Len(plPages)
    /\ LET copy == plHtml[<<"index.html">>].st # "absent"
       IN  /\ plHtml' = IF copy
                         THEN [plHtml EXCEPT ![<<"404.html">>] = plHtml[<<"index.html">>]]
                         ELSE plHtml
           /\ plCreated404' = copy
    /\ plPc' = "done"
    /\ plNet' = {}
    /\ plLast' = Step("finish", 0, "", "", "")
    /\ UNCHANGED <<plPages, plIdx, plItem, plDoc, plFs, plFailed, plWritten, plTrace>>
    /\ UNCHANGED plOthers

\* main, lines 527-531
Finish ==
    /\ plPc = "fetch"
    /\ plIdx > Len(plPages)
    /\ LET copy == /\ plHtml[<<"404.html">>].st = "absent"
                    /\ plHtml[<<"index.html">>].st # "absent"
       IN  /\ plHtml' = IF copy
                         THEN [plHtml EXCEPT ![<<"404.html">>] = plHtml[<<"index.html">>]]
                         ELSE plHtml
           /\ plCreated404' = copy
    /\ plPc' = "done"
    /\ plNet' = {}
    /\ plLast' = Step("finish", 0, "", "", "")
    /\ UNCHANGED <<plPages, plIdx, plItem, plDoc, plFs, plFailed, plWritten, plTrace>>
    /\ UNCHANGED plOthers

-----------------------------------------------------------------------------
(* Specification of the asset namer: two URLs are drawn, then named.       *)

NoName == <<Chr("?")>>

NamerInit ==
    /\ nmU1 \in Urls
    /\ nmU2 \in Urls
    /\ nmN1 = NoName
    /\ nmN2 = NoName

NamerIdle ==
    /\ nmU1 = NoUrl
    /\ nmU2 = NoUrl
    /\ nmN1 = NoName
    /\ nmN2 = NoName

NameFirst ==
    /\ nmN1 = NoName
    /\ nmN1' = _safe_filename_from_url(nmU1)
    /\ UNCHANGED <<nmU1, nmU2, nmN2>>
    /\ UNCHANGED nmOthers

NameSecond ==
    /\ nmN1 # NoName
    /\ nmN2 = NoName
    /\ nmN2' = _safe_filename_from_url(nmU2)
    /\ UNCHANGED <<nmU1, nmU2, nmN1>>
    /\ UNCHANGED nmOthers

NamerNext == NameFirst \/ NameSecond

BothNamed == nmN1 # NoName /\ nmN2 # NoName

\* C3: any two distinct URLs get distinct file names
C3_NamesCollisionFree ==
    (BothNamed /\ nmU1 # nmU2) => nmN1 # nmN2

SameButQuery(u, v) ==
    /\ u.scheme = v.scheme
    /\ u.netloc = v.netloc
    /\ u.path = v.path
    /\ u.query # v.query

\* C8: two URLs that differ only in their query string get different file
\* names, and the same URL named twice gets the same name
C8_QueriesSeparated ==
    BothNamed =>
        /\ SameButQuery(nmU1, nmU2) => nmN1 # nmN2
        /\ nmU1 = nmU2 => nmN1 = nmN2

\* one URL without a query and one with, on a path whose last segment has
\* an extension, both named
C8_Witness ==
    /\ BothNamed
    /\ SameButQuery(nmU1, nmU2)
    /\ nmU1.query = <<>>
    /\ Contains(basename(nmU1.path), ".")
    /\ nmN1 # nmN2

-----------------------------------------------------------------------------
(* Specification of the fetcher: calls of _download_binary on a disk that  *)
(* an earlier run may have filled, against a transport that may fail or    *)
(* answer any body.                                                        *)

FetchUrls  == {[scheme |-> "https", netloc |-> "h1", path |-> <<"/", "a">>,
                query |-> q] : q \in {<<>>, <<"x">>}}
FetchPaths == {"assets/p1", "assets/p2"}

FetchInit ==
    /\ ftFs \in [FetchPaths -> {Absent, "", "v1"}]
    /\ ftCalls = <<>>

FetchIdle ==
    /\ ftFs = [p \in {} |-> Absent]
    /\ ftCalls = <<>>

Download(url, out_path, resp) ==
    /\ Len(ftCalls) < MaxCalls
    /\ LET r == _download_binary(ftFs, url, out_path, resp)
       IN  /\ ftFs' = r.fs
           /\ ftCalls' = Append(ftCalls,
                  [url |-> url, path |-> out_path, ret |-> r.ret,
                   net |-> r.net, before |-> ftFs[out_path],
                   after |-> r.fs[out_path]])
    /\ UNCHANGED ftOthers

FetchNext ==
    \E url \in FetchUrls, out_path \in FetchPaths, resp \in Responses :
        Download(url, out_path, resp)

InitNamer == NamerInit /\ FetchIdle /\ StripIdle /\ AnchorIdle /\ WorkerIdle /\ PipeIdle
SpecNamer == InitNamer /\ [][NamerNext]_vars

InitFetch == FetchInit /\ NamerIdle /\ StripIdle /\ AnchorIdle /\ WorkerIdle /\ PipeIdle
SpecFetch == InitFetch /\ [][FetchNext]_vars

InitStrip == StripInit /\ NamerIdle /\ FetchIdle /\ AnchorIdle /\ WorkerIdle /\ PipeIdle
SpecStrip == InitStrip /\ [][StripNext]_vars

AnchorNext == RewriteAnchor

InitAnchor == AnchorInit /\ NamerIdle /\ FetchIdle /\ StripIdle /\ WorkerIdle /\ PipeIdle
SpecAnchor == InitAnchor /\ [][AnchorNext]_vars

WorkerNext == WalkValue \/ FinishWalk

Next ==
    \/ GetPage
    \/ GetPageFails
    \/ LocalizeStylesheet
    \/ LocalizeAttr
    \/ RemoveBase
    \/ LocalizeWorker
    \/ RewriteAnchors
    \/ WritePage
    \/ Finish

Init == PipeInit /\ NamerIdle /\ FetchIdle /\ StripIdle /\ AnchorIdle /\ WorkerIdle
Spec == Init /\ [][Next]_vars

InitWorker == WorkerInit /\ NamerIdle /\ FetchIdle /\ StripIdle /\ AnchorIdle /\ PipeIdle
SpecWorker == InitWorker /\ [][WorkerNext]_vars

\* what C5 says the new href of an internal anchor is: the path with one
\* trailing slash, then ?query, then #fragment
ExpectedHref(h) ==
    (IF rstrip_slash(h.path) = <<>> THEN <<"/">>
     ELSE rstrip_slash(h.path) \o <<"/">>)
    \o QueryText(h.query) \o FragmentText(h.fragment)

IsInternal(page_url, h) ==
    /\ h.kind \in {"abs", "root"}
    /\ ResolvedNetloc(page_url, h) = page_url.netloc

\* C5: an anchor to the page's own host gets the path with one trailing
\* slash followed by the original ?query and #fragment and nothing else; any
\* other anchor keeps its href
C5_AnchorRewritten ==
    anNew # <<>> =>
        IF IsInternal(anPage, anHref)
        THEN anNew = ExpectedHref(anHref)
        ELSE anNew = HrefText(anHref)

\* two calls in a row with the same URL and path, the first of which
\* fetched with success
TwiceInARow(i) ==
    /\ i + 1 <= Len(ftCalls)
    /\ ftCalls[i].url = ftCalls[i+1].url
    /\ ftCalls[i].path = ftCalls[i+1].path
    /\ ftCalls[i].net
    /\ ftCalls[i].ret = "True"

OneFetchOnly(i) ==
    /\ ~ftCalls[i+1].net
    /\ ftCalls[i+1].ret = "False"
    /\ ftCalls[i+1].after = ftCalls[i].after

\* C2 as stated: whatever bytes the transport returned, the second of two
\* calls in a row makes no network call, returns false and leaves the file
C2_IdempotentFetchAnyBytes ==
    \A i \in 1..Len(ftCalls) : TwiceInARow(i) => OneFetchOnly(i)

\* C2 amended: when the transport returned at least one byte, the second of
\* two calls in a row makes no network call, returns false and leaves the
\* file; after a body of zero bytes the second call asks the transport again
C2_IdempotentFetch ==
    \A i \in 1..Len(ftCalls) :
        TwiceInARow(i) =>
            IF ftCalls[i].after # ""
            THEN OneFetchOnly(i)
            ELSE ftCalls[i+1].net

C2_Witness ==
    \E i \in 1..Len(ftCalls) :
        /\ TwiceInARow(i)
        /\ ftCalls[i].after = "v2"
        /\ OneFetchOnly(i)

-----------------------------------------------------------------------------
(* Claims about the runtime stripper *)

MarkerCount(s) == Cardinality({i \in 1..Len(s) : s[i] = Node("#comment", "", MARKER)})

\* C1: a pass over the output of the pass before is a no-op: its output is
\* the same text as its input, with exactly one marker comment in the head
C1_StripIdempotent ==
    stFromOut =>
        /\ Serialize(stOut) = Serialize(stIn)
        /\ stOut.hasHead => MarkerCount(stOut.head) = 1

Occurrences(d, n) ==
    Cardinality({i \in 1..Len(d.head) : d.head[i] = n})
    + Cardinality({i \in 1..Len(d.body) : d.body[i] = n})

WixStylesOf(d) ==
    {n \in {d.head[i] : i \in 1..Len(d.head)} \cup {d.body[i] : i \in 1..Len(d.body)} :
        n.tag = "style" /\ n.t \in WixTexts}

StillPresent(n) == Occurrences(stOut, n) = Occurrences(stIn, n)
Removed(n)      == Occurrences(stOut, n) = 0

-----------------------------------------------------------------------------
(* Claims about the worker bootstrap localizer *)

WalkDone == wkTag \in {"reserialized", "untouched"}

\* the value was a worker reference whose download did not fail
Localized(i) ==
    /\ HasWorkerMarker(wkOrig[i])
    /\ worker_abs_url(wkSite, wkOrig[i]) # NoUrl
    /\ wkRet[i] \in {"True", "False"}

C6_ValuesRewritten ==
    \A i \in 1..Len(wkOrig) :
        IF Localized(i)
        THEN wkText[i] = worker_site_root_path(
                 _safe_filename_from_url(worker_abs_url(wkSite, wkOrig[i])))
        ELSE wkText[i] = Text(RefText(wkOrig[i]))

SomeValueDiffers ==
    \E i \in 1..Len(wkOrig) : wkText[i] # Text(RefText(wkOrig[i]))

\* C6: after the walk every worker value whose download succeeded is the
\* path /assets/wix-workers/<name>, every other value is as it was, and the
\* script's text was replaced only if some value is no longer what it was
C6_WorkerLocalized ==
    WalkDone =>
        /\ C6_ValuesRewritten
        /\ wkTag = "reserialized" => SomeValueDiffers

-----------------------------------------------------------------------------
(* Claims about the page pipeline *)

\* C4: once a file under assets/ is non-empty, no later step of the run
\* sends a request for it or changes its content
C4_WriteOnceIfAbsent ==
    [][\A f \in DOMAIN plFs :
          NonEmpty(plFs, f) =>
              /\ plFs'[f] = plFs[f]
              /\ \A req \in plNet' : req[2] # f]_vars

OriginalText(el) == Text(RefText(el.ref))

AssetFetchFailed ==
    plLast.kind \in {"css", "attr", "worker"} /\ plLast.ret = "raise"

CssPathOf(el) == AssetPath(_safe_filename_from_url(Resolve(Page.url, el.ref)))

\* C7: an element whose asset fetch failed keeps its reference as it was,
\* a url() token whose fetch failed stays as it was in the stylesheet
\* written, the page goes on to its next step (only a page fetch ends the
\* run), and the page is written with those references
C7_AssetFailureKeepsReference ==
    /\ \A i \in plFailed : plDoc[i].val = OriginalText(plDoc[i])
    /\ AssetFetchFailed => plPc = "work"
    /\ plPc = "raised" => plLast.kind = "page"
    /\ (plLast.kind = "css" /\ plLast.tok = "raise") =>
           plFs[CssPathOf(plPages[plIdx].doc[plLast.idx])] = plLast.body
    /\ plLast.kind = "write" =>
           /\ plLast.idx \in plWritten
           /\ plHtml[out_html_path(plPages[plLast.idx].url)] = PageHtml(plDoc)
    /\ \A j \in 1..(plIdx - 1) : j \in plWritten

\* a page written after its stylesheet failed and a later image or script
\* was localized
C7_Witness ==
    /\ plLast.kind = "write"
    /\ \E i \in plFailed : plDoc[i].tag = "link"
    /\ \E j \in 1..Len(plDoc) :
          /\ plDoc[j].tag \in {"img", "script"}
          /\ plDoc[j].val # OriginalText(plDoc[j])

PageFetchFailed == plLast.kind = "page" /\ plLast.ret = "raise"

\* C10: when the fetch of page i fails the run ends with the error: no
\* file of page i or of a later page is written, 404.html is not created,
\* and the files of the pages before i are in place
C10_PageFailureAborts ==
    PageFetchFailed =>
        /\ plPc = "raised"
        /\ plLast.idx = plIdx
        /\ \A j \in plIdx..Len(plPages) :
              /\ j \notin plWritten
              /\ plHtml[out_html_path(plPages[j].url)].text # "page"
        /\ ~plCreated404
        /\ plHtml[<<"404.html">>] \in {NoHtml, OldHtml("old 404")}
        /\ \A j \in 1..(plIdx - 1) :
              /\ j \in plWritten
              /\ plHtml[out_html_path(plPages[j].url)].text = "page"

\* the second page's fetch failed after the first page was written
C10_Witness ==
    /\ PageFetchFailed
    /\ plPc = "raised"
    /\ plIdx = 2
    /\ 1 \in plWritten

-----------------------------------------------------------------------------
(* Order of the steps on one page.  plTrace lists the steps done on the    *)
(* page in work, or on the page just written.                              *)

\* the page plTrace is about
TracePage ==
    IF plTrace # <<>> /\ plTrace[Len(plTrace)] = "write"
    THEN plPages[plIdx - 1] ELSE plPages[plIdx]

\* the elements the asset loops of lines 342-394 visit
AssetElems(doc) ==
    {i \in 1..Len(doc) : doc[i].tag \in {"link", "script", "img", "source"}}

\* every asset element of the page was handled before step i
AssetsDoneBefore(i) ==
    Cardinality({j \in 1..(i - 1) : plTrace[j] \in {"css", "attr"}})
        = Cardinality(AssetElems(TracePage.doc))

DoneBefore(kind, i) == \E j \in 1..(i - 1) : plTrace[j] = kind

\* C11 as stated: on every page the worker bootstrap localizer runs only
\* after all stylesheet and script/img/source/link localization, <base>
\* removal and internal anchor rewriting, and the page is written after it.
C11_WorkerLast ==
    \A i \in 1..Len(plTrace) :
        /\ plTrace[i] = "worker" =>
               /\ AssetsDoneBefore(i)
               /\ DoneBefore("base", i)
               /\ DoneBefore("anchors", i)
        /\ plTrace[i] = "write" => DoneBefore("worker", i)

\* C11 amended: on every page the worker bootstrap localizer runs after all
\* stylesheet and script/img/source/link localization and <base> removal;
\* internal anchors are rewritten after it; the page is written only after
\* all of these, with the document they left.
C11_WorkerAfterAssets ==
    /\ \A i \in 1..Len(plTrace) :
          /\ plTrace[i] = "worker" =>
                 /\ AssetsDoneBefore(i)
                 /\ DoneBefore("base", i)
          /\ plTrace[i] = "anchors" => DoneBefore("worker", i)
          /\ plTrace[i] = "write" =>
                 /\ DoneBefore("anchors", i)
                 /\ i = Len(plTrace)
    /\ plLast.kind = "write" =>
          plHtml[out_html_path(TracePage.url)] = PageHtml(plDoc)

\* a page with an asset and a viewer model was worked through and written
C11_Witness ==
    /\ plLast.kind = "write"
    /\ ViewerModels(plDoc) # <<>>
    /\ \E i, j \in 1..Len(plTrace) :
          /\ i < j
          /\ plTrace[i] \in {"css", "attr"}
          /\ plTrace[j] = "worker"
    /\ DoneBefore("anchors", Len(plTrace))


-----------------------------------------------------------------------------
(* <base> elements and the runtime stripper.                               *)

BaseCount(d) ==
    Cardinality({i \in 1..Len(d.head) : d.head[i].tag = "base"})
    + Cardinality({i \in 1..Len(d.body) : d.body[i].tag = "base"})

\* C12: whatever the number and position of the <base> elements of the
\* input, the output of strip_html contains no <base> element.
C12_NoBaseAfterStrip ==
    stPasses >= 1 => BaseCount(stOut) = 0


-----------------------------------------------------------------------------
(* The 404 fallback at the end of a run.                                   *)

IndexHtml    == <<"index.html">>
NotFoundHtml == <<"404.html">>

\* the step that ends a run whose pages have all been written
RunEnds == plPc # "done" /\ plPc' = "done"

\* C13: when the run ends after all its pages were written, 404.html is
\* created as a copy of index.html if index.html exists and 404.html does
\* not; a 404.html that exists is left unchanged; no 404.html is created
\* when index.html is absent; and no other step touches 404.html.
C13_NotFoundFallback ==
    [][/\ RunEnds =>
            /\ \A j \in 1..Len(plPages) : j \in plWritten
            /\ plHtml'[IndexHtml] = plHtml[IndexHtml]
            /\ (plHtml[IndexHtml].st # "absent" /\ plHtml[NotFoundHtml].st = "absent") =>
                   /\ plHtml'[NotFoundHtml] = plHtml[IndexHtml]
                   /\ plCreated404'
            /\ plHtml[NotFoundHtml].st # "absent" =>
                   /\ plHtml'[NotFoundHtml] = plHtml[NotFoundHtml]
                   /\ ~plCreated404'
            /\ plHtml[IndexHtml].st = "absent" =>
                   /\ plHtml'[NotFoundHtml] = plHtml[NotFoundHtml]
                   /\ ~plCreated404'
       /\ ~RunEnds => plHtml'[NotFoundHtml] = plHtml[NotFoundHtml]]_vars

\* a run wrote its root page and then made 404.html from it
C13_Witness ==
    /\ plPc = "done"
    /\ plCreated404
    /\ \E j \in plWritten : out_html_path(plPages[j].url) = IndexHtml
    /\ plHtml[IndexHtml].text = "page"
    /\ plHtml[NotFoundHtml] = plHtml[IndexHtml]


=============================================================================
